---- MODULE Spec2Model ----
(***************************************************************************)
(* Factory attendance service (src/main.py): RFID scan ingestion into a   *)
(* per-employee-per-day attendance record, employee seeding, and the two  *)
(* read-only listings (attendance of a day, employees).  The two          *)
(* MongoDB collections are sequences of documents in insertion (natural)  *)
(* order; a document's _id is its position.  Request handlers run on a    *)
(* thread pool, so every store call is one atomic step and the steps of   *)
(* different requests interleave.                                         *)
(*                                                                         *)
(* Python strings are sequences of character codes ("09" = <<48, 57>>),   *)
(* so that strftime, strptime and the f-string formatting are computed.   *)
(***************************************************************************)
EXTENDS Integers, Sequences, FiniteSets, TLC

VARIABLES
    db,          \* TRUE iff the module-level handle `db` is not None
    employee,    \* db["employee"]: sequence of documents
    attendance,  \* db["attendance"]: sequence of documents
    pc,          \* per worker: position inside its handler
    req,         \* per worker: the handler's local variables
    resp,        \* HTTP status of the last finished request
    body,        \* what the last finished request returned
    nreq,        \* number of requests accepted so far
    overlaps,    \* number of them accepted while another was in flight
    hist,        \* history: per (id, date), the scans committed so far
    lastOp,      \* history: the last committed store write
    call         \* one call of compute_worked_hours: arguments and result

vars ==
    <<db, employee, attendance, pc, req, resp, body, nreq, overlaps, hist, lastOp, call>>

-----------------------------------------------------------------------------
(* Bounds *)

MaxReq == 2
MaxOverlap == 1
MaxSeedLen == 2
MaxCallTimes == 9
MaxRecords == 2

\* the thread pool
Procs == {"w1", "w2"}

EmpIds == {"e1", "e2"}
ScannerIds == {"scanner1", "scanner2", "scanner3"}

-----------------------------------------------------------------------------
(* Python values *)

\* None; distinct from every string, the empty string <<>> included
None == <<-1>>

\* truthiness of an Optional[str]: `not x` holds for None and for ""
Falsy(x) == x = None \/ x = <<>>

\* x or y
Or(x, y) == IF Falsy(x) THEN y ELSE x

\* a < b on strings: code point by code point, a proper prefix first
RECURSIVE StrLess(_, _)
StrLess(a, b) ==
    IF b = <<>> THEN FALSE
    ELSE IF a = <<>> THEN TRUE
    ELSE IF a[1] # b[1] THEN a[1] < b[1]
    ELSE StrLess(Tail(a), Tail(b))

Digit(n) == 48 + n
Colon == 58
Hyphen == 45

\* f"{n:02d}": at least two digits, zero padded
RECURSIVE Decimal(_)
Decimal(n) == IF n < 10 THEN <<Digit(n)>> ELSE Decimal(n \div 10) \o <<Digit(n % 10)>>

Fmt02d(n) == IF n < 10 THEN <<Digit(0), Digit(n)>> ELSE Decimal(n)

Fmt04d(n) ==
    LET d == Decimal(n)
    IN  [i \in 1..(4 - Len(d)) |-> Digit(0)] \o d

\* Names used by the seed requests: "Ann", "Bob"
Names == {<<65, 110, 110>>, <<66, 111, 98>>}

\* "Paint", and "paint" for a filter that differs from it in case only
Paint == <<80, 97, 105, 110, 116>>

LowerPaint == <<112, 97, 105, 110, 116>>

\* The timestamps the scanners send (datetime values): two times on the first
\* day and one on the second
Days == {[year |-> 2026, month |-> 11, day |-> 5], [year |-> 2026, month |-> 11, day |-> 6]}

TimesOfDay == {[hour |-> 8, minute |-> 0, second |-> 59],
               [hour |-> 17, minute |-> 31, second |-> 0]}

Timestamps ==
    {ts \in {[year |-> d.year, month |-> d.month, day |-> d.day,
              hour |-> t.hour, minute |-> t.minute, second |-> t.second]
             : d \in Days, t \in TimesOfDay} :
        ts.day = 5 \/ ts.hour = 8}

to_date_str(dt) ==
    Fmt04d(dt.year) \o <<Hyphen>> \o Fmt02d(dt.month) \o <<Hyphen>> \o Fmt02d(dt.day)

to_time_str(dt) ==
    Fmt02d(dt.hour) \o <<Colon>> \o Fmt02d(dt.minute) \o <<Colon>> \o Fmt02d(dt.second)

IsDigit(c) == c >= 48 /\ c <= 57

\* datetime.strptime(s, "%H:%M:%S") on the eight-character form, as seconds
\* since midnight; -1 stands for the ValueError of a string that does not match
Strptime(s) ==
    IF /\ Len(s) = 8
       /\ \A i \in {1, 2, 4, 5, 7, 8} : IsDigit(s[i])
       /\ s[3] = Colon /\ s[6] = Colon
    THEN LET h == (s[1] - 48) * 10 + (s[2] - 48)
             m == (s[4] - 48) * 10 + (s[5] - 48)
             x == (s[7] - 48) * 10 + (s[8] - 48)
         IN  IF h <= 23 /\ m <= 59 /\ x <= 61 THEN h * 3600 + m * 60 + x ELSE -1
    ELSE -1

\* the minutes taken from the whole difference, not from the rest of the hour
compute_worked_hours_TotalMinutes(entry, exit) ==
    IF Falsy(entry) \/ Falsy(exit) THEN None
    ELSE LET e_dt == Strptime(entry)
             x_dt == Strptime(exit)
         IN  IF e_dt = -1 \/ x_dt = -1 THEN None
             ELSE LET total_seconds == x_dt - e_dt
                  IN  IF total_seconds < 0 THEN None
                      ELSE LET hours == total_seconds \div 3600
                               minutes == total_seconds \div 60
                           IN  Fmt02d(hours) \o <<Colon>> \o Fmt02d(minutes)

compute_worked_hours(entry, exit) ==
    IF Falsy(entry) \/ Falsy(exit) THEN None
    ELSE LET e_dt == Strptime(entry)
             x_dt == Strptime(exit)
         IN  IF e_dt = -1 \/ x_dt = -1 THEN None
             ELSE LET total_seconds == x_dt - e_dt
                  IN  IF total_seconds < 0 THEN None
                      ELSE LET hours == total_seconds \div 3600
                               minutes == (total_seconds % 3600) \div 60
                           IN  Fmt02d(hours) \o <<Colon>> \o Fmt02d(minutes)

-----------------------------------------------------------------------------
(* The store *)

\* a filter that leaves the date out of the match
Matches_NoDate(doc, filter) == \A f \in DOMAIN filter \ {"date"} : doc[f] = filter[f]

\* a document matches a filter {field: value, ...}
Matches(doc, filter) == \A f \in DOMAIN filter : doc[f] = filter[f]

\* a lookup whose filter is ignored: the first document of the collection
FindOne_AnyDocument(coll, filter) == IF Len(coll) > 0 THEN 1 ELSE 0

\* collection.find_one(filter): position of the first document, in natural
\* order, that matches; 0 when there is none (None)
FindOne(coll, filter) ==
    IF \E i \in 1..Len(coll) : Matches(coll[i], filter)
    THEN CHOOSE i \in 1..Len(coll) :
            Matches(coll[i], filter) /\ \A j \in 1..(i - 1) : ~Matches(coll[j], filter)
    ELSE 0

\* list(collection.find(filter)): the documents that match, in natural order
Find(coll, filter) == SelectSeq(coll, LAMBDA d : Matches(d, filter))

\* an insert where the update should be
UpdateOne_Insert(coll, i, fields) == Append(coll, fields)

\* collection.update_one({"_id": i}, {"$set": fields})
UpdateOne(coll, i, fields) ==
    [coll EXCEPT ![i] =
        [f \in DOMAIN coll[i] |-> IF f \in DOMAIN fields THEN fields[f] ELSE coll[i][f]]]

\* create_document(collection, data): a new document at the end of the collection
CreateDocument(coll, data) == Append(coll, data)

-----------------------------------------------------------------------------
(* Requests *)

RFIDEvent == [id : EmpIds, scanner_id : ScannerIds, timestamp : Timestamps]

NoEvent == [id |-> "", scanner_id |-> "", timestamp |-> [year |-> 0, month |-> 0,
            day |-> 0, hour |-> 0, minute |-> 0, second |-> 0]]

NoPayload == [date |-> None, id |-> "", name |-> None, entryTime |-> None,
              exitTime |-> None, workedHours |-> None]

\* the employees that the seed requests send: "e1" under both names, "e2"
SeedDocs == {e \in [id : EmpIds, name : Names, department : {Paint}] :
                e.id = "e1" \/ e.name = <<65, 110, 110>>}

SeedLists ==
    {l \in UNION {[1..n -> SeedDocs] : n \in 1..MaxSeedLen} :
        \A i, j \in 1..Len(l) : i < j => l[i] # l[j]}

\* the locals of a worker that handles no request
Idle == [event |-> NoEvent, name |-> None, att |-> 0, payload |-> NoPayload,
         employees |-> <<>>, i |-> 0, existing |-> 0, inserted |-> 0, clean |-> TRUE,
         before |-> <<>>, date |-> None, department |-> None, records |-> <<>>,
         result |-> <<>>]

\* a response whose body no property reads
NoBody == [inserted |-> 0, count |-> 0, date |-> None, records |-> <<>>]

Keys == EmpIds \X {to_date_str(d) : d \in Days}

KeyOf(ev) == <<ev.id, to_date_str(ev.timestamp)>>

\* an Optional time of day
NoTime == [present |-> FALSE, hour |-> 0, minute |-> 0, second |-> 0]

TimeOf(t) == [present |-> TRUE, hour |-> t \div 3600, minute |-> (t % 3600) \div 60,
              second |-> t % 60]

\* the argument that compute_worked_hours gets for it
TimeArg(t) == IF t.present THEN to_time_str(t) ELSE None

NoOp == [kind |-> "none", event |-> NoEvent, clean |-> TRUE]

\* a write to the store: every other request in flight has now seen a store
\* that changed under it
Disturb(p, r) ==
    [q \in Procs |-> IF q = p THEN r
                     ELSE IF pc[q] = "idle" THEN req[q]
                     ELSE [req[q] EXCEPT !.clean = FALSE]]

\* the pool hands a request to its first idle worker
Busy(p) == \E q \in Procs \ {p} : pc[q] # "idle"

Accepts(p) ==
    /\ pc[p] = "idle"
    /\ p = "w1" \/ pc["w1"] # "idle"
    /\ nreq < MaxReq
    /\ nreq' = nreq + 1
    /\ Busy(p) => overlaps < MaxOverlap
    /\ overlaps' = IF Busy(p) THEN overlaps + 1 ELSE overlaps

\* the service starts with or without a database; the database outlives the
\* service, so the employee collection is empty or holds an employee of an
\* earlier seed
Init ==
    /\ db \in BOOLEAN
    /\ employee \in IF db THEN {<<>>, <<[id |-> "e1", name |-> <<65, 110, 110>>,
                                         department |-> Paint]>>}
                         ELSE {<<>>}
    /\ attendance = <<>>
    /\ pc = [p \in Procs |-> "idle"]
    /\ req = [p \in Procs |-> Idle]
    /\ resp = 0
    /\ body = NoBody
    /\ nreq = 0
    /\ overlaps = 0
    /\ hist = [k \in Keys |-> <<>>]
    /\ lastOp = NoOp
    /\ call = [entry |-> NoTime, exit |-> NoTime, result |-> None, done |-> TRUE]

\* the employee lookup answers 404 before the database is checked
RfidFindEmployee_LookupFirst(p, ev) ==
    /\ Accepts(p)
    /\ LET emp == FindOne(employee, [id |-> ev.id])
       IN  IF emp = 0
           THEN /\ resp' = 404
                /\ body' = NoBody
                /\ UNCHANGED <<pc, req>>
           ELSE IF ~db
           THEN /\ resp' = 500
                /\ body' = NoBody
                /\ UNCHANGED <<pc, req>>
           ELSE /\ pc' = [pc EXCEPT ![p] = "rfid_att"]
                /\ req' = [req EXCEPT ![p] =
                              [Idle EXCEPT !.event = ev, !.name = employee[emp].name]]
                /\ UNCHANGED <<resp, body>>
    /\ UNCHANGED <<db, employee, attendance, hist, lastOp, call>>

\* ingest_rfid, lines 93-106: the request arrives; 500 when there is no
\* database; the employee lookup; 404 when it finds nothing
RfidFindEmployee(p, ev) ==
    /\ Accepts(p)
    /\ IF ~db
       THEN /\ resp' = 500
            /\ body' = NoBody
            /\ UNCHANGED <<pc, req>>
       ELSE LET emp == FindOne(employee, [id |-> ev.id])
            IN  IF emp = 0
                THEN /\ resp' = 404
                     /\ body' = NoBody
                     /\ UNCHANGED <<pc, req>>
                ELSE /\ pc' = [pc EXCEPT ![p] = "rfid_att"]
                     /\ req' = [req EXCEPT ![p] =
                                   [Idle EXCEPT !.event = ev, !.name = employee[emp].name]]
                     /\ UNCHANGED <<resp, body>>
    /\ UNCHANGED <<db, employee, attendance, hist, lastOp, call>>

\* every scanner taken for a gate
KnownScanner_Any(scanner_id) == TRUE

\* ingest_rfid, lines 117-122: the two gates
KnownScanner(scanner_id) == scanner_id \in {"scanner1", "scanner2"}

\* workedHours computed before the scan's own time is applied
ScanPayload_StaleWorked(event, name, att) ==
    LET date_str == to_date_str(event.timestamp)
        time_str == to_time_str(event.timestamp)
        entry0 == IF att # 0 THEN attendance[att].entryTime ELSE None
        exit0 == IF att # 0 THEN attendance[att].exitTime ELSE None
        entry_time == IF event.scanner_id = "scanner1" THEN time_str ELSE entry0
        exit_time == IF event.scanner_id = "scanner2" THEN time_str ELSE exit0
        worked == compute_worked_hours(entry0, exit0)
    IN  [date |-> date_str, id |-> event.id, name |-> name,
         entryTime |-> entry_time, exitTime |-> exit_time, workedHours |-> worked]

\* the record that the lookup found is not read
ScanPayload_Fresh(event, name, att) ==
    LET date_str == to_date_str(event.timestamp)
        time_str == to_time_str(event.timestamp)
        entry_time == IF event.scanner_id = "scanner1" THEN time_str ELSE None
        exit_time == IF event.scanner_id = "scanner2" THEN time_str ELSE None
        worked == compute_worked_hours(entry_time, exit_time)
    IN  [date |-> date_str, id |-> event.id, name |-> name,
         entryTime |-> entry_time, exitTime |-> exit_time, workedHours |-> worked]

\* an entry scan that clears the exit time
ScanPayload_EntryClearsExit(event, name, att) ==
    LET date_str == to_date_str(event.timestamp)
        time_str == to_time_str(event.timestamp)
        entry0 == IF att # 0 THEN attendance[att].entryTime ELSE None
        exit0 == IF att # 0 THEN attendance[att].exitTime ELSE None
        entry_time == IF event.scanner_id = "scanner1" THEN time_str ELSE entry0
        exit_time == IF event.scanner_id = "scanner2" THEN time_str ELSE None
        worked == compute_worked_hours(entry_time, exit_time)
    IN  [date |-> date_str, id |-> event.id, name |-> name,
         entryTime |-> entry_time, exitTime |-> exit_time, workedHours |-> worked]

\* an exit scan that clears the entry time
ScanPayload_ExitClearsEntry(event, name, att) ==
    LET date_str == to_date_str(event.timestamp)
        time_str == to_time_str(event.timestamp)
        entry0 == IF att # 0 THEN attendance[att].entryTime ELSE None
        exit0 == IF att # 0 THEN attendance[att].exitTime ELSE None
        entry_time == IF event.scanner_id = "scanner1" THEN time_str ELSE None
        exit_time == IF event.scanner_id = "scanner2" THEN time_str ELSE exit0
        worked == compute_worked_hours(entry_time, exit_time)
    IN  [date |-> date_str, id |-> event.id, name |-> name,
         entryTime |-> entry_time, exitTime |-> exit_time, workedHours |-> worked]

\* the first scan of a gate wins: a time that is set is kept
ScanPayload_FirstWins(event, name, att) ==
    LET date_str == to_date_str(event.timestamp)
        time_str == to_time_str(event.timestamp)
        entry0 == IF att # 0 THEN attendance[att].entryTime ELSE None
        exit0 == IF att # 0 THEN attendance[att].exitTime ELSE None
        entry_time == IF event.scanner_id = "scanner1" /\ entry0 = None
                      THEN time_str ELSE entry0
        exit_time == IF event.scanner_id = "scanner2" /\ exit0 = None
                     THEN time_str ELSE exit0
        worked == compute_worked_hours(entry_time, exit_time)
    IN  [date |-> date_str, id |-> event.id, name |-> name,
         entryTime |-> entry_time, exitTime |-> exit_time, workedHours |-> worked]

\* ingest_rfid, lines 108-133: the payload of a scan, from the record that the
\* lookup found (att, 0 for None)
ScanPayload(event, name, att) ==
    LET date_str == to_date_str(event.timestamp)
        time_str == to_time_str(event.timestamp)
        entry0 == IF att # 0 THEN attendance[att].entryTime ELSE None
        exit0 == IF att # 0 THEN attendance[att].exitTime ELSE None
        entry_time == IF event.scanner_id = "scanner1" THEN time_str ELSE entry0
        exit_time == IF event.scanner_id = "scanner2" THEN time_str ELSE exit0
        worked == compute_worked_hours(entry_time, exit_time)
    IN  [date |-> date_str, id |-> event.id, name |-> name,
         entryTime |-> entry_time, exitTime |-> exit_time, workedHours |-> worked]

\* the attendance lookup by the employee's id alone, whatever the date
RfidFindAttendance_AnyDate(p) ==
    /\ pc[p] = "rfid_att"
    /\ LET event == req[p].event
           att == FindOne(attendance, [id |-> event.id])
       IN  IF ~KnownScanner(event.scanner_id)
           THEN /\ resp' = 400
                /\ body' = NoBody
                /\ pc' = [pc EXCEPT ![p] = "idle"]
                /\ req' = [req EXCEPT ![p] = Idle]
           ELSE /\ pc' = [pc EXCEPT ![p] = "rfid_write"]
                /\ req' = [req EXCEPT ![p].att = att,
                                      ![p].payload = ScanPayload(event, req[p].name, att)]
                /\ UNCHANGED <<resp, body>>
    /\ UNCHANGED <<db, employee, attendance, nreq, overlaps, hist, lastOp, call>>

\* ingest_rfid, lines 108-133: the attendance lookup, the gate, the payload;
\* 400 for a scanner that is neither gate
RfidFindAttendance(p) ==
    /\ pc[p] = "rfid_att"
    /\ LET event == req[p].event
           date_str == to_date_str(event.timestamp)
           att == FindOne(attendance, [id |-> event.id, date |-> date_str])
       IN  IF ~KnownScanner(event.scanner_id)
           THEN /\ resp' = 400
                /\ body' = NoBody
                /\ pc' = [pc EXCEPT ![p] = "idle"]
                /\ req' = [req EXCEPT ![p] = Idle]
           ELSE /\ pc' = [pc EXCEPT ![p] = "rfid_write"]
                /\ req' = [req EXCEPT ![p].att = att,
                                      ![p].payload = ScanPayload(event, req[p].name, att)]
                /\ UNCHANGED <<resp, body>>
    /\ UNCHANGED <<db, employee, attendance, nreq, overlaps, hist, lastOp, call>>

\* ingest_rfid, lines 135-140: update the record that was found, or create one
RfidWrite(p) ==
    /\ pc[p] = "rfid_write"
    /\ attendance' = IF req[p].att # 0
                     THEN UpdateOne(attendance, req[p].att, req[p].payload)
                     ELSE CreateDocument(attendance, req[p].payload)
    /\ resp' = 200
    /\ body' = NoBody
    /\ pc' = [pc EXCEPT ![p] = "idle"]
    /\ req' = Disturb(p, Idle)
    /\ hist' = [hist EXCEPT ![KeyOf(req[p].event)] =
                   Append(@, [scanner_id |-> req[p].event.scanner_id,
                              timestamp |-> req[p].event.timestamp,
                              clean |-> req[p].clean])]
    /\ lastOp' = [kind |-> "rfid", event |-> req[p].event, clean |-> req[p].clean]
    /\ UNCHANGED <<db, employee, nreq, overlaps, call>>

\* seed_employees, lines 190-197: the request arrives; 500 when there is no
\* database
SeedStart(p, employees) ==
    /\ Accepts(p)
    /\ IF ~db
       THEN /\ resp' = 500
            /\ body' = NoBody
            /\ UNCHANGED <<pc, req>>
       ELSE /\ pc' = [pc EXCEPT ![p] = "seed_find"]
            /\ req' = [req EXCEPT ![p] =
                          [Idle EXCEPT !.employees = employees, !.i = 1,
                                       !.before = employee]]
            /\ UNCHANGED <<resp, body>>
    /\ UNCHANGED <<db, employee, attendance, hist, lastOp, call>>

\* seed_employees, line 199: look the next employee up
SeedFind(p) ==
    /\ pc[p] = "seed_find"
    /\ LET e == req[p].employees[req[p].i]
       IN  req' = [req EXCEPT ![p].existing = FindOne(employee, [id |-> e.id])]
    /\ pc' = [pc EXCEPT ![p] = "seed_write"]
    /\ UNCHANGED <<db, employee, attendance, resp, body, nreq, overlaps, hist, lastOp, call>>

\* a seed that also carries the new name into the attendance records of the id
SeedWrite_Rejoin(p) ==
    /\ pc[p] = "seed_write"
    /\ LET r == req[p]
           e == r.employees[r.i]
           last == r.i = Len(r.employees)
           inserted == r.inserted + (IF r.existing # 0 THEN 0 ELSE 1)
       IN  /\ employee' = IF r.existing # 0
                          THEN UpdateOne(employee, r.existing, e)
                          ELSE CreateDocument(employee, e)
           /\ attendance' = [i \in 1..Len(attendance) |->
                                IF attendance[i].id = e.id
                                THEN [attendance[i] EXCEPT !.name = e.name]
                                ELSE attendance[i]]
           /\ req' = Disturb(p, IF last THEN Idle
                                ELSE [r EXCEPT !.i = r.i + 1, !.existing = 0,
                                        !.inserted = inserted])
           /\ pc' = [pc EXCEPT ![p] = IF last THEN "idle" ELSE "seed_find"]
           /\ resp' = IF last THEN 200 ELSE resp
           /\ body' = IF last THEN [NoBody EXCEPT !.inserted = inserted] ELSE body
    /\ lastOp' = [kind |-> "seed", event |-> NoEvent, clean |-> req[p].clean]
    /\ UNCHANGED <<db, nreq, overlaps, hist, call>>

\* a seed that counts every employee of the list as inserted
SeedWrite_CountsAll(p) ==
    /\ pc[p] = "seed_write"
    /\ LET r == req[p]
           e == r.employees[r.i]
           last == r.i = Len(r.employees)
           inserted == r.inserted + 1
       IN  /\ employee' = IF r.existing # 0
                          THEN UpdateOne(employee, r.existing, e)
                          ELSE CreateDocument(employee, e)
           /\ req' = Disturb(p, IF last THEN Idle
                                ELSE [r EXCEPT !.i = r.i + 1, !.existing = 0,
                                        !.inserted = inserted])
           /\ pc' = [pc EXCEPT ![p] = IF last THEN "idle" ELSE "seed_find"]
           /\ resp' = IF last THEN 200 ELSE resp
           /\ body' = IF last THEN [NoBody EXCEPT !.inserted = inserted] ELSE body
    /\ lastOp' = [kind |-> "seed", event |-> NoEvent, clean |-> req[p].clean]
    /\ UNCHANGED <<db, attendance, nreq, overlaps, hist, call>>

\* seed_employees, lines 200-206: update or insert it, then the next one
SeedWrite(p) ==
    /\ pc[p] = "seed_write"
    /\ LET r == req[p]
           e == r.employees[r.i]
           last == r.i = Len(r.employees)
           inserted == r.inserted + (IF r.existing # 0 THEN 0 ELSE 1)
       IN  /\ employee' = IF r.existing # 0
                          THEN UpdateOne(employee, r.existing, e)
                          ELSE CreateDocument(employee, e)
           /\ req' = Disturb(p, IF last THEN Idle
                                ELSE [r EXCEPT !.i = r.i + 1, !.existing = 0,
                                        !.inserted = inserted])
           /\ pc' = [pc EXCEPT ![p] = IF last THEN "idle" ELSE "seed_find"]
           /\ resp' = IF last THEN 200 ELSE resp
           /\ body' = IF last THEN [NoBody EXCEPT !.inserted = inserted] ELSE body
    /\ lastOp' = [kind |-> "seed", event |-> NoEvent, clean |-> req[p].clean]
    /\ UNCHANGED <<db, attendance, nreq, overlaps, hist, call>>

\* the query parameters of GET /api/attendance: absent, or a string
QueryDates == {None} \cup {to_date_str(d) : d \in Days}

\* the department parameter: absent, empty, or a department in either case
QueryDepartments == {None, <<>>, Paint, LowerPaint}

\* a string in lower case
Lower(str) == [i \in 1..Len(str) |-> IF str[i] \in 65..90 THEN str[i] + 32 ELSE str[i]]

\* a department filter that does not tell upper case from lower case
JoinOne_AnyCase(r, department) ==
    LET emp == FindOne(employee, [id |-> r.id])
    IN  IF emp = 0 THEN <<>>
        ELSE IF ~Falsy(department)
                /\ Lower(employee[emp].department) # Lower(department) THEN <<>>
        ELSE <<[date |-> r.date, id |-> r.id,
                name |-> Or(r.name, employee[emp].name),
                department |-> employee[emp].department,
                entryTime |-> r.entryTime, exitTime |-> r.exitTime,
                workedHours |-> r.workedHours]>>

\* get_attendance, lines 160-175: the row of one attendance record, <<>> when
\* the record is dropped (designation and employee_picture, which no employee
\* of the model has, are left out of the row)
JoinOne(r, department) ==
    LET emp == FindOne(employee, [id |-> r.id])
    IN  IF emp = 0 THEN <<>>
        ELSE IF ~Falsy(department) /\ employee[emp].department # department THEN <<>>
        ELSE <<[date |-> r.date, id |-> r.id,
                name |-> Or(r.name, employee[emp].name),
                department |-> employee[emp].department,
                entryTime |-> r.entryTime, exitTime |-> r.exitTime,
                workedHours |-> r.workedHours]>>

\* get_attendance, line 178: the key of the sort
SortKey(x) == Or(x.name, <<>>)

\* get_attendance, line 178: list.sort is stable; each row goes behind the
\* rows before it whose key is not greater
RECURSIVE SortByName(_)
SortByName(result) ==
    IF result = <<>> THEN <<>>
    ELSE LET n == Len(result)
             x == result[n]
             front == SortByName(SubSeq(result, 1, n - 1))
             k == Cardinality({i \in 1..Len(front) :
                                  ~StrLess(SortKey(x), SortKey(front[i]))})
         IN  SubSeq(front, 1, k) \o <<x>> \o SubSeq(front, k + 1, Len(front))

\* get_attendance, lines 143-155: the request arrives; 500 when there is no
\* database; today's date for a date that is not given; the records of the date
QueryFind(p, date, department, today) ==
    /\ Accepts(p)
    /\ IF ~db
       THEN /\ resp' = 500
            /\ body' = NoBody
            /\ UNCHANGED <<pc, req>>
       ELSE LET d == IF Falsy(date) THEN to_date_str(today) ELSE date
                records == Find(attendance, [date |-> d])
            IN  IF records = <<>>
                THEN /\ resp' = 200
                     /\ body' = [NoBody EXCEPT !.date = d]
                     /\ UNCHANGED <<pc, req>>
                ELSE /\ pc' = [pc EXCEPT ![p] = "query_join"]
                     /\ req' = [req EXCEPT ![p] =
                                   [Idle EXCEPT !.date = d, !.department = department,
                                                !.records = records, !.i = 1]]
                     /\ UNCHANGED <<resp, body>>
    /\ UNCHANGED <<db, employee, attendance, hist, lastOp, call>>

\* get_attendance, lines 159-180: the employee of the next record; after the
\* last one, the sort and the response
QueryJoin(p) ==
    /\ pc[p] = "query_join"
    /\ LET r == req[p]
           result == r.result \o JoinOne(r.records[r.i], r.department)
       IN  IF r.i = Len(r.records)
           THEN /\ resp' = 200
                /\ body' = [NoBody EXCEPT !.date = r.date, !.records = SortByName(result)]
                /\ pc' = [pc EXCEPT ![p] = "idle"]
                /\ req' = [req EXCEPT ![p] = Idle]
           ELSE /\ req' = [req EXCEPT ![p].result = result, ![p].i = r.i + 1]
                /\ UNCHANGED <<pc, resp, body>>
    /\ UNCHANGED <<db, employee, attendance, nreq, overlaps, hist, lastOp, call>>

\* get_employees, lines 183-187
GetEmployees(p) ==
    /\ Accepts(p)
    /\ IF ~db
       THEN /\ resp' = 500
            /\ body' = NoBody
       ELSE /\ resp' = 200
            /\ body' = [NoBody EXCEPT !.count = Len(employee), !.records = employee]
    /\ UNCHANGED <<db, employee, attendance, pc, req, hist, lastOp, call>>

Next ==
    \/ \E p \in Procs, ev \in RFIDEvent : RfidFindEmployee(p, ev)
    \/ \E p \in Procs : RfidFindAttendance(p)
    \/ \E p \in Procs : RfidWrite(p)
    \/ \E p \in Procs, employees \in SeedLists : SeedStart(p, employees)
    \/ \E p \in Procs : SeedFind(p)
    \/ \E p \in Procs : SeedWrite(p)
    \/ \E p \in Procs, date \in QueryDates, department \in QueryDepartments, today \in Days :
          QueryFind(p, date, department, today)
    \/ \E p \in Procs : QueryJoin(p)
    \/ \E p \in Procs : GetEmployees(p)

Spec == Init /\ [][Next]_vars

-----------------------------------------------------------------------------
(* get_attendance, called on stores that seeds and scans have filled *)

\* the employee documents of an id: seed_employees takes any dictionary, so the
\* name can be missing or empty; the first employee is in either department
StoredEmployees(id) ==
    [id : {id}, name : {None, <<>>, <<65, 110, 110>>},
     department : IF id = "e1" THEN {Paint, LowerPaint} ELSE {Paint}]

\* the employee collections: at most one document for each id ("e1" ahead of
\* "e2"); an id without a document is an employee removed from the collection
\* by other means than this service
EmployeeStores ==
    {<<>>}
    \cup {<<a>> : a \in StoredEmployees("e1") \cup StoredEmployees("e2")}
    \cup {<<a, b>> : a \in StoredEmployees("e1"), b \in StoredEmployees("e2")}

\* the attendance records that an entry scan writes, under the name that the
\* employee had then (missing, or "Bob")
StoredRecords ==
    {[date |-> to_date_str(ts), id |-> id, name |-> n,
      entryTime |-> to_time_str(ts), exitTime |-> None, workedHours |-> None]
     : id \in EmpIds, ts \in {t \in Timestamps : t.hour = 8},
       n \in {None, <<66, 111, 98>>}}

AttendanceStores == UNION {[1..n -> StoredRecords] : n \in 0..MaxRecords}

\* one query is made
QueryInit ==
    /\ db = TRUE
    /\ employee \in EmployeeStores
    /\ attendance \in AttendanceStores
    /\ pc = [p \in Procs |-> "idle"]
    /\ req = [p \in Procs |-> Idle]
    /\ resp = 0
    /\ body = NoBody
    /\ nreq = MaxReq - 1
    /\ overlaps = 0
    /\ hist = [k \in Keys |-> <<>>]
    /\ lastOp = NoOp
    /\ call = [entry |-> NoTime, exit |-> NoTime, result |-> None, done |-> TRUE]

QueryNext ==
    \/ \E p \in Procs, date \in QueryDates, department \in QueryDepartments, today \in Days :
          QueryFind(p, date, department, today)
    \/ \E p \in Procs : QueryJoin(p)

QuerySpec == QueryInit /\ [][QueryNext]_vars

-----------------------------------------------------------------------------
(* compute_worked_hours, called on its own *)

CallTimes ==
    {TimeOf(k * 7919) : k \in 0..MaxCallTimes}
    \cup {TimeOf(9 * 3600), TimeOf(17 * 3600 + 30 * 60), TimeOf(8 * 3600), TimeOf(86399)}

CallInit ==
    /\ db = TRUE
    /\ employee = <<>>
    /\ attendance = <<>>
    /\ pc = [p \in Procs |-> "idle"]
    /\ req = [p \in Procs |-> Idle]
    /\ resp = 0
    /\ body = NoBody
    /\ nreq = 0
    /\ overlaps = 0
    /\ hist = [k \in Keys |-> <<>>]
    /\ lastOp = NoOp
    /\ \E e \in CallTimes \cup {NoTime}, x \in CallTimes \cup {NoTime} :
          call = [entry |-> e, exit |-> x, result |-> None, done |-> FALSE]

Call ==
    /\ ~call.done
    /\ call' = [call EXCEPT !.result = compute_worked_hours(TimeArg(call.entry),
                                                            TimeArg(call.exit)),
                            !.done = TRUE]
    /\ UNCHANGED <<db, employee, attendance, pc, req, resp, body, nreq, overlaps, hist,
                   lastOp>>

CallNext == Call

CallSpec == CallInit /\ [][CallNext]_vars

-----------------------------------------------------------------------------
(* Properties *)

\* the attendance records of an (id, date) pair
RecordsOf(k) ==
    {i \in 1..Len(attendance) : attendance[i].id = k[1] /\ attendance[i].date = k[2]}

\* HH:MM:SS of a timestamp, written out
ClockText(ts) ==
    <<48 + (ts.hour \div 10), 48 + (ts.hour % 10), 58,
      48 + (ts.minute \div 10), 48 + (ts.minute % 10), 58,
      48 + (ts.second \div 10), 48 + (ts.second % 10)>>

\* a <= b for two strings of one length, character by character
StrLeq(a, b) ==
    \/ a = b
    \/ \E i \in 1..Len(a) : a[i] < b[i] /\ \A j \in 1..(i - 1) : a[j] = b[j]

Gates == {"scanner1", "scanner2"}

\* the step of worker p that writes its scan
WritesScan(p) == pc[p] = "rfid_write" /\ pc'[p] = "idle"

\* every scan committed for k was handled with no other write during it
Serial(k) == \A j \in 1..Len(hist[k]) : hist[k][j].clean

\* the last scan of gate g committed for k, 0 when there is none
LastScan(k, g) ==
    LET js == {j \in 1..Len(hist[k]) : hist[k][j].scanner_id = g}
    IN  IF js = {} THEN 0 ELSE CHOOSE j \in js : \A l \in js : l <= j

\* C1: in every reachable state there is at most one attendance record for
\* each (employeeId, date) pair, interleaved scan requests included.
C1_OneRecordPerKey == \A k \in Keys : Cardinality(RecordsOf(k)) <= 1

\* C2: every stored attendance record has workedHours null unless entryTime
\* and exitTime are both present with exitTime >= entryTime, and then
\* workedHours is compute_worked_hours of the times stored in that record.
C2_WorkedHoursDerived ==
    \A i \in 1..Len(attendance) :
        LET r == attendance[i]
            ok == /\ r.entryTime # None
                  /\ r.exitTime # None
                  /\ StrLeq(r.entryTime, r.exitTime)
        IN  IF ok
            THEN /\ r.workedHours # None
                 /\ r.workedHours = compute_worked_hours(r.entryTime, r.exitTime)
            ELSE r.workedHours = None

C2_Witness ==
    \E i \in 1..Len(attendance) :
        /\ attendance[i].entryTime # None
        /\ attendance[i].exitTime # None
        /\ attendance[i].workedHours # None

\* C3: compute_worked_hours gives null when an argument is absent or when
\* exit < entry, and otherwise the whole hours and the whole minutes of the
\* rest of exit - entry as HH:MM, hours in 0..23 and minutes in 0..59.
C3_WorkedHours ==
    call.done =>
        LET e == call.entry
            x == call.exit
            d == (x.hour * 3600 + x.minute * 60 + x.second)
                 - (e.hour * 3600 + e.minute * 60 + e.second)
            h == d \div 3600
            m == (d % 3600) \div 60
        IN  /\ IF ~e.present \/ ~x.present \/ d < 0
               THEN call.result = None
               ELSE /\ h \in 0..23
                    /\ m \in 0..59
                    /\ call.result = <<48 + (h \div 10), 48 + (h % 10), 58,
                                       48 + (m \div 10), 48 + (m % 10)>>
            /\ (e = TimeOf(9 * 3600) /\ x = TimeOf(17 * 3600 + 30 * 60))
                  => call.result = <<48, 56, 58, 51, 48>>
            /\ (e.present /\ e = x) => call.result = <<48, 48, 58, 48, 48>>

C3_Witness ==
    /\ call.done
    /\ call.entry = TimeOf(9 * 3600)
    /\ call.exit = TimeOf(17 * 3600 + 30 * 60)
    /\ call.result = <<48, 56, 58, 51, 48>>

\* C4: an entry scan and then an exit scan, handled one after the other for
\* an employee and date that had no record, leave exactly one record for
\* the pair, with entryTime and exitTime the times of the two scans.
C4_EntryThenExit ==
    \A k \in Keys :
        LET h == hist[k]
        IN  (/\ Len(h) = 2
             /\ Serial(k)
             /\ h[1].scanner_id = "scanner1"
             /\ h[2].scanner_id = "scanner2")
            => \E i \in 1..Len(attendance) :
                  /\ RecordsOf(k) = {i}
                  /\ attendance[i].entryTime = ClockText(h[1].timestamp)
                  /\ attendance[i].exitTime = ClockText(h[2].timestamp)

C4_Witness ==
    \E k \in Keys :
        /\ Len(hist[k]) = 2
        /\ Serial(k)
        /\ hist[k][1].scanner_id = "scanner1"
        /\ hist[k][2].scanner_id = "scanner2"
        /\ Cardinality(RecordsOf(k)) = 1

\* C5: a scan handled with no other write during it sets the time of its
\* own gate, in the record of its (id, date), to the scan's time and leaves
\* the time of the other gate as it was before the scan (null when there was
\* no record). The record is the one that find_one returns, the first of the
\* pair in the collection, should an earlier race have left two.
C5_OtherGateKept ==
    [][\A p \in Procs :
          (WritesScan(p) /\ req[p].clean) =>
              LET ev == req[p].event
                  old == RecordsOf(KeyOf(ev))
                  new == {i \in 1..Len(attendance') :
                             /\ attendance'[i].id = ev.id
                             /\ attendance'[i].date = to_date_str(ev.timestamp)}
              IN  /\ new # {}
                  /\ LET i == CHOOSE n \in new : \A m \in new : n <= m
                     IN  /\ ev.scanner_id = "scanner1" =>
                               /\ attendance'[i].entryTime = ClockText(ev.timestamp)
                               /\ attendance'[i].exitTime =
                                     IF i \in old THEN attendance[i].exitTime ELSE None
                         /\ ev.scanner_id = "scanner2" =>
                               /\ attendance'[i].exitTime = ClockText(ev.timestamp)
                               /\ attendance'[i].entryTime =
                                     IF i \in old THEN attendance[i].entryTime ELSE None
      ]_vars

C5_Witness ==
    /\ lastOp.kind = "rfid"
    /\ lastOp.clean
    /\ lastOp.event.scanner_id = "scanner1"
    /\ \E i \in RecordsOf(KeyOf(lastOp.event)) :
          /\ attendance[i].entryTime = ClockText(lastOp.event.timestamp)
          /\ attendance[i].exitTime # None

\* C6: a scan whose employee id matches no Employee record fails with 404
\* and leaves the attendance store as it was.
C6_NotFound ==
    [][\A p \in Procs, ev \in RFIDEvent :
          (/\ RfidFindEmployee(p, ev)
           /\ db
           /\ \A i \in 1..Len(employee) : employee[i].id # ev.id)
          => (resp' = 404 /\ pc'[p] = "idle" /\ attendance' = attendance)
      ]_vars

C6_Witness == resp = 404 /\ Len(attendance) > 0

\* C7 as stated: a scan whose gate is not recognized fails with 400, for
\* every employee id and timestamp.
C7_AnyEmployee ==
    [][\A p \in Procs, ev \in RFIDEvent :
          (/\ RfidFindEmployee(p, ev)
           /\ db
           /\ ev.scanner_id \notin Gates
           /\ pc'[p] = "idle")
          => resp' = 400
      ]_vars

\* C7 as amended: with the store available, a scan whose gate is not
\* recognized fails with 400 and leaves the attendance store as it was when
\* its employee id matches an Employee record, and fails with 404 when it
\* matches none.
C7_UnknownScanner ==
    [][/\ \A p \in Procs, ev \in RFIDEvent :
             (RfidFindEmployee(p, ev) /\ db /\ ev.scanner_id \notin Gates) =>
                 /\ attendance' = attendance
                 /\ IF \E i \in 1..Len(employee) : employee[i].id = ev.id
                    THEN pc'[p] = "rfid_att" /\ req'[p].event = ev
                    ELSE pc'[p] = "idle" /\ resp' = 404
       /\ \A p \in Procs :
             (/\ pc[p] = "rfid_att"
              /\ pc'[p] # "rfid_att"
              /\ req[p].event.scanner_id \notin Gates)
             => (resp' = 400 /\ pc'[p] = "idle" /\ attendance' = attendance)
      ]_vars

C7_Witness == resp = 400 /\ Len(attendance) > 0

\* C8: interleaved scans of one employee and date only lose an update: each
\* write stores the whole payload of its request, there stays one record per
\* (id, date), and workedHours stays derived from the stored times.
C8_BenignRace ==
    /\ [](\A k \in Keys : \A i, j \in RecordsOf(k) : i = j)
    /\ [](\A i \in 1..Len(attendance) :
             attendance[i].workedHours =
                 compute_worked_hours(attendance[i].entryTime, attendance[i].exitTime))
    /\ [][\A p \in Procs :
             WritesScan(p) =>
                 \E i \in 1..Len(attendance') :
                    /\ attendance'[i] = req[p].payload
                    /\ \A j \in 1..Len(attendance) : j # i => attendance'[j] = attendance[j]
         ]_vars

\* C9: after scans of one employee and date handled one at a time, entryTime
\* is the time of the last entry scan handled and exitTime the time of the
\* last exit scan handled (null without one), whatever their times of day.
C9_LastScanWins ==
    \A k \in Keys :
        (Serial(k) /\ hist[k] # <<>>) =>
            \E i \in 1..Len(attendance) :
               /\ RecordsOf(k) = {i}
               /\ attendance[i].entryTime =
                     IF LastScan(k, "scanner1") = 0 THEN None
                     ELSE ClockText(hist[k][LastScan(k, "scanner1")].timestamp)
               /\ attendance[i].exitTime =
                     IF LastScan(k, "scanner2") = 0 THEN None
                     ELSE ClockText(hist[k][LastScan(k, "scanner2")].timestamp)

\* a second entry scan with an earlier time of day than the first
C9_Witness ==
    \E k \in Keys :
        /\ Serial(k)
        /\ Len(hist[k]) = 2
        /\ hist[k][1].scanner_id = "scanner1"
        /\ hist[k][2].scanner_id = "scanner1"
        /\ hist[k][2].timestamp.hour < hist[k][1].timestamp.hour
        /\ \E i \in RecordsOf(k) :
              attendance[i].entryTime = ClockText(hist[k][2].timestamp)

\* C10: a scan handled right after the same scan (same id, gate and
\* timestamp), each with no other write during it, leaves the attendance
\* store as the first one left it.
C10_Idempotent ==
    [][\A p \in Procs :
          (/\ WritesScan(p)
           /\ req[p].clean
           /\ lastOp.kind = "rfid"
           /\ lastOp.clean
           /\ lastOp.event = req[p].event)
          => attendance' = attendance
      ]_vars

C10_Witness ==
    /\ lastOp.kind = "rfid"
    /\ lastOp.clean
    /\ LET h == hist[KeyOf(lastOp.event)]
           n == Len(h)
       IN  /\ n >= 2
           /\ h[n].clean /\ h[n - 1].clean
           /\ h[n].scanner_id = lastOp.event.scanner_id
           /\ h[n].timestamp = lastOp.event.timestamp
           /\ h[n - 1].scanner_id = h[n].scanner_id
           /\ h[n - 1].timestamp = h[n].timestamp

\* C11: no two documents of the employee collection have the same id, in every
\* reachable state, seed requests that interleave between find_one and the
\* insert included
C11_UniqueEmployeeId ==
    \A i, j \in 1..Len(employee) : employee[i].id = employee[j].id => i = j

\* C14: the name in an attendance record is the employee's name that the scan
\* which wrote the record read: the lookup of a scan reads the name of an
\* employee document with the event's id, and the write stores that name; a
\* step that changes the employee collection (a seed that renames the
\* employee) leaves every attendance record as it is
C14_NameSnapshot ==
    [][\A p \in Procs :
          /\ (pc[p] = "idle" /\ pc'[p] = "rfid_att") =>
                \E j \in 1..Len(employee) :
                    /\ employee[j].id = req'[p].event.id
                    /\ employee[j].name = req'[p].name
          /\ WritesScan(p) =>
                LET k == IF req[p].att # 0 THEN req[p].att ELSE Len(attendance')
                IN  attendance'[k].name = req[p].name
          /\ employee' # employee => attendance' = attendance]_vars

\* a seed has renamed the employee of an attendance record, and the record
\* still has the old name
C14_Witness ==
    /\ lastOp.kind = "seed"
    /\ Len(employee) = 1
    /\ \E i \in 1..Len(attendance) :
          /\ attendance[i].id = employee[1].id
          /\ attendance[i].name # employee[1].name

\* the ids of the documents of a collection
IdsOf(coll) == {coll[i].id : i \in 1..Len(coll)}

\* C15: when no other request writes to the store while a seed request is
\* handled, the inserted count that it reports is the number of distinct ids
\* of its list that no employee document had when the request arrived, and
\* the employee collection has grown by that number
C15_InsertedCount ==
    [][\A p \in Procs :
          (pc[p] = "seed_write" /\ pc'[p] = "idle" /\ req[p].clean) =>
              /\ resp' = 200
              /\ body'.inserted =
                    Cardinality(IdsOf(req[p].employees) \ IdsOf(req[p].before))
              /\ Len(employee') = Len(req[p].before) + body'.inserted]_vars

\* a seed handled on its own has updated one employee and inserted another
C15_Witness ==
    /\ lastOp.kind = "seed" /\ lastOp.clean
    /\ \A p \in Procs : pc[p] = "idle"
    /\ resp = 200 /\ body.inserted = 1
    /\ Len(employee) = 2
    /\ employee[1].name = <<66, 111, 98>>

\* C16: no step of any operation removes an attendance record or changes the
\* (id, date) key of one: the collection never gets shorter, and every record
\* (a document keeps its _id, its place in the collection) has after the
\* step the id and the date that it had before
C16_NeverRemovedNorRekeyed ==
    [][/\ Len(attendance') >= Len(attendance)
       /\ \A i \in 1..Len(attendance) :
             /\ attendance'[i].id = attendance[i].id
             /\ attendance'[i].date = attendance[i].date]_vars

\* a record has been created and then written again by a second scan of its
\* key: it is still the only record
C16_Witness ==
    /\ lastOp.kind = "rfid"
    /\ Len(attendance) = 1
    /\ Len(hist[<<attendance[1].id, attendance[1].date>>]) = 2

\* C17: while there is no database (db is None), every request (a scan of
\* any employee and any scanner, an attendance query, an employee list, a
\* seed) is answered with 500 in the step in which it arrives: no worker goes
\* on to a lookup or a write, nothing is tried again, and no collection
\* changes; no such request is answered with 404 or 400
C17_StoreUnavailable ==
    [][~db =>
          /\ resp' = 500
          /\ \A p \in Procs : pc[p] = "idle" /\ pc'[p] = "idle"
          /\ employee' = employee
          /\ attendance' = attendance
          /\ \A p \in Procs, ev \in RFIDEvent : RfidFindEmployee(p, ev) => resp' # 404
          /\ nreq' = nreq + 1]_vars

\* requests have been answered while there was no database
C17_Witness == ~db /\ resp = 500 /\ nreq = MaxReq

\* C18: the write of a scan of employee e with a timestamp on date d leaves
\* every attendance record whose id is not e or whose date is not d, and the
\* whole employee collection, as they were (what it adds is a record of the
\* key (e, d)); no step of an attendance query or of an employee list changes
\* a collection
C18_Frame ==
    [][\A p \in Procs :
          /\ WritesScan(p) =>
                LET ev == req[p].event
                IN  /\ employee' = employee
                    /\ \A i \in 1..Len(attendance) :
                          (attendance[i].id # ev.id
                             \/ attendance[i].date # to_date_str(ev.timestamp))
                          => attendance'[i] = attendance[i]
                    /\ \A i \in (Len(attendance) + 1)..Len(attendance') :
                          /\ attendance'[i].id = ev.id
                          /\ attendance'[i].date = to_date_str(ev.timestamp)
          /\ (QueryJoin(p) \/ GetEmployees(p)
                \/ \E date \in QueryDates, department \in QueryDepartments, today \in Days :
                      QueryFind(p, date, department, today))
                => employee' = employee /\ attendance' = attendance]_vars

\* a scan has written a record while a record of another key was in the
\* collection
C18_Witness ==
    /\ lastOp.kind = "rfid"
    /\ \E i, j \in 1..Len(attendance) :
          /\ <<attendance[i].id, attendance[i].date>> = KeyOf(lastOp.event)
          /\ <<attendance[j].id, attendance[j].date>> # KeyOf(lastOp.event)

\* C19: with scans handled one at a time (no scan writes after another request
\* has written to the store since that scan arrived), no step of a scan, a
\* query, a list or a seed clears a time: an attendance record whose entryTime
\* is not null before the step has an entryTime that is not null after it,
\* and the same for exitTime
C19_NeverCleared ==
    [][(\A p \in Procs : WritesScan(p) => req[p].clean) =>
          \A i \in 1..Len(attendance) :
              /\ attendance[i].entryTime # None => attendance'[i].entryTime # None
              /\ attendance[i].exitTime # None => attendance'[i].exitTime # None]_vars

\* an exit scan handled on its own has written a record that had an entry
\* time, and the entry time is still there
C19_Witness ==
    /\ lastOp.kind = "rfid"
    /\ lastOp.clean
    /\ lastOp.event.scanner_id = "scanner2"
    /\ \E i \in RecordsOf(KeyOf(lastOp.event)) :
          /\ attendance[i].exitTime = ClockText(lastOp.event.timestamp)
          /\ attendance[i].entryTime # None

\* the attendance records that a query of date d with the department
\* parameter dep is to return: those of the date whose id is the id of an
\* employee document and, when dep is a department (neither absent nor the
\* empty string), of an employee document with that very department
Kept(d, dep) ==
    {i \in 1..Len(attendance) :
        /\ attendance[i].date = d
        /\ \E j \in 1..Len(employee) :
              /\ employee[j].id = attendance[i].id
              /\ (dep # None /\ dep # <<>>) => employee[j].department = dep}

\* C12: the rows that an attendance query answers with are exactly the
\* attendance records of its date whose id is the id of an employee document
\* and, when a department is given, whose employee has that department, letter
\* case included: each row is one of these records with its employee's
\* department, each of these records is there as often as it is in the
\* collection, and the answer is 200; a date without records is answered with
\* 200 and no rows
C12_QueryResult ==
    [][\A p \in Procs :
          /\ (pc[p] = "query_join" /\ pc'[p] = "idle") =>
                LET rows == body'.records
                    kept == Kept(req[p].date, req[p].department)
                IN  /\ resp' = 200
                    /\ body'.date = req[p].date
                    /\ Len(rows) = Cardinality(kept)
                    /\ \A id \in EmpIds :
                          Cardinality({k \in 1..Len(rows) : rows[k].id = id})
                             = Cardinality({i \in kept : attendance[i].id = id})
                    /\ \A k \in 1..Len(rows) :
                          \E i \in kept, j \in 1..Len(employee) :
                              /\ rows[k].id = attendance[i].id
                              /\ rows[k].date = attendance[i].date
                              /\ rows[k].entryTime = attendance[i].entryTime
                              /\ rows[k].exitTime = attendance[i].exitTime
                              /\ rows[k].workedHours = attendance[i].workedHours
                              /\ employee[j].id = rows[k].id
                              /\ rows[k].department = employee[j].department
          /\ \A date \in QueryDates, department \in QueryDepartments, today \in Days :
                LET d == IF date = None THEN to_date_str(today) ELSE date
                IN  (QueryFind(p, date, department, today)
                       /\ db /\ \A i \in 1..Len(attendance) : attendance[i].date # d)
                    => resp' = 200 /\ body'.date = d /\ body'.records = <<>>]_vars

\* a query has answered with rows, and has left out a record of its date that
\* has no employee
C12_Witness ==
    /\ resp = 200
    /\ Len(body.records) > 0
    /\ \E i \in 1..Len(attendance) :
          /\ attendance[i].date = body.date
          /\ \A j \in 1..Len(employee) : employee[j].id # attendance[i].id

\* the rows of the records of a query, joined one after the other
RECURSIVE JoinAll(_, _)
JoinAll(records, department) ==
    IF records = <<>> THEN <<>>
    ELSE JoinOne(Head(records), department) \o JoinAll(Tail(records), department)

\* what an attendance query answers with on an attendance collection
QueryOf(coll, date, department) ==
    SortByName(JoinAll(Find(coll, [date |-> date]), department))

NamesOf(rows) == [k \in 1..Len(rows) |-> rows[k].name]

\* the names with a missing name written as the empty string
KeysOf(rows) == [k \in 1..Len(rows) |-> IF rows[k].name = None THEN <<>> ELSE rows[k].name]

\* the collections that hold the same records, inserted in another order
Reorderings(coll) ==
    {[i \in 1..Len(coll) |-> coll[f[i]]] : f \in Permutations(1..Len(coll))}

\* the rows of an answer ascend by name, a missing name taken as the empty
\* string, and the names so taken come in the same order whatever the order in
\* which the records were inserted
C13_SortedByName ==
    [][\A p \in Procs :
          (pc[p] = "query_join" /\ pc'[p] = "idle") =>
              LET rows == body'.records
              IN  /\ rows = QueryOf(attendance, req[p].date, req[p].department)
                  /\ \A k, l \in 1..Len(rows) :
                        k < l => ~StrLess(KeysOf(rows)[l], KeysOf(rows)[k])
                  /\ \A coll \in Reorderings(attendance) :
                        KeysOf(QueryOf(coll, req[p].date, req[p].department))
                           = KeysOf(rows)]_vars

\* C13: the rows that an attendance query answers with ascend by name (empty
\* and missing names first), and the names come in the same order for every
\* order in which the same attendance records were inserted
C13_SameNamesAnyOrder ==
    [][\A p \in Procs :
          (pc[p] = "query_join" /\ pc'[p] = "idle") =>
              LET rows == body'.records
              IN  /\ \A k, l \in 1..Len(rows) :
                        k < l => ~StrLess(KeysOf(rows)[l], KeysOf(rows)[k])
                  /\ \A coll \in Reorderings(attendance) :
                        NamesOf(QueryOf(coll, req[p].date, req[p].department))
                           = NamesOf(rows)]_vars

====
